---- MODULE Spec2Model ----
(***************************************************************************)
(* Model of the NDI Source of src/source/mod.rs: the multiplexing loop     *)
(* Source::listen (accept + handshake, per-peer metadata, broadcast), the  *)
(* frame submission channel (flume::bounded(1)) and the status queries     *)
(* Source::peers / Source::tally, which run concurrently with the loop;    *)
(* and of the NDI receiver of src/recv.rs: Recv::new with its identify     *)
(* handshake, the reader thread Recv::task and the consumer's pulls.       *)
(*                                                                         *)
(* Spec is the loop with frame submission and broadcast; SpecQuery is the   *)
(* loop with the peers' metadata and concurrent peers() / tally() callers; *)
(* SpecMeta is the loop with the peers' metadata alone; SpecFair is Spec   *)
(* under the fairness of the loop's scheduling; SpecDrop is the loop with  *)
(* the Source being dropped; SpecRecv is Recv.                             *)
(*                                                                         *)
(* Slab keys are 0-based in the code and 1-based here.                     *)
(***************************************************************************)
EXTENDS FiniteSets, Integers, Sequences, TLC

\* ---------------------------------------------------------------- bounds
MaxConns == 2       \* connections the listener ever accepts
MaxFrames == 2      \* frames ever submitted to the Source
MaxMeta == 1        \* frames the peers ever send to the Source after the handshake
NumCallers == 1     \* concurrent callers of Source::peers() / Source::tally()
MaxIn == 4          \* frames the remote source ever sends to a Recv
MaxDepth == 2       \* largest `queue` depth handed to Recv::new
MaxHandles == 2     \* Recv handles alive at once (the Recv and its clones)
MaxErrs == 1        \* items a pull sequence is followed for after the disconnect

\* ------------------------------------------------------ program constants
Cap == 1            \* flume::bounded(1)
RequiredMsgs == 4   \* Version, Identify, Video, EnabledStreams

Conns == 1..MaxConns
Callers == 1..NumCallers

\* The kinds of io::frame::Frame.
FrameKinds == {"Video", "Audio", "Text"}

\* The two kinds Recv keeps a queue for.
Kinds == {"Video", "Audio"}

\* text::EnabledStreams as a peer may request it (video, audio, text).
EnabledStreams(v, a, t) == [video |-> v, audio |-> a, text |-> t]
StreamChoices ==
    { EnabledStreams(TRUE, TRUE, TRUE), EnabledStreams(TRUE, FALSE, FALSE),
      EnabledStreams(FALSE, TRUE, FALSE), EnabledStreams(FALSE, FALSE, TRUE) }

\* text::Tally and its Default.
Tally(p, v) == [program |-> p, preview |-> v]
TallyDefault == Tally(FALSE, FALSE)
Tallies == { Tally(p, v) : p \in BOOLEAN, v \in BOOLEAN }

\* impl BitOr for text::Tally, as Source::tally folds with it.
TallyOr(a, b) == Tally(a.program \/ b.program, a.preview \/ b.preview)

\* What a peer can put on its Stream after the handshake: a Tally metadata
\* frame, another metadata frame, a frame that is not metadata, or bytes
\* that do not decode.
Inbound ==
    { [m |-> "Tally", tally |-> t] : t \in Tallies }
    \cup { [m |-> k, tally |-> TallyDefault] : k \in {"Other", "NonText", "Malformed"} }

\* What the client does during the handshake window: how many of the four
\* frames arrive before HANDSHAKE_TIMEOUT, and whether it closes the socket.
HsInputs ==
    { [got |-> RequiredMsgs, closed |-> FALSE], [got |-> 0, closed |-> FALSE],
      [got |-> RequiredMsgs - 1, closed |-> TRUE] }
NoHs == [got |-> 0, closed |-> FALSE]

\* A Peer record; NoPeer stands for "no Peer was built for this connection".
Peer(c, s, t) == [identify |-> c, streams |-> s, tally |-> t]
NoPeer == Peer(0, EnabledStreams(FALSE, FALSE, FALSE), TallyDefault)

\* A submitted frame: its submission number and its kind.
Frame(i, kind) == [id |-> i, kind |-> kind]
NoFrame == Frame(0, "None")

Range(s) == { s[i] : i \in 1..Len(s) }

VARIABLES
    loopPc,        \* where Source::listen is: "select", "handshake", "sending", "stopped"
    hsConn,        \* the connection whose handshake the loop is awaiting (0: none)
    nextConn,      \* connections accepted so far
    hsIn,          \* per connection, the client's handshake behaviour
    peer,          \* per connection, the Peer behind its Arc<RwLock<Peer>> (NoPeer: none, or freed)
    streams,       \* the Slab<(Lock<Peer>, Stream)> of listen
    peers,         \* Source.peers: the Vec<WeakLock<Peer>>, as connection ids
    link,          \* per connection, the transport: "up", "stalled", "down"
    inbox,         \* per connection, frames sent by the peer and not yet read
    nextMeta,      \* frames the peers have sent so far
    queue,         \* the flume channel's queue
    sending,       \* the flume channel's blocked senders, with their frames
    disconnected,  \* the flume channel has lost its receiver
    nextFrame,     \* frames submitted so far
    cur,           \* the frame the loop is broadcasting (NoFrame: none)
    pending,       \* slab keys whose send of the current frame has not completed
    cpc,           \* per caller of peers(): "idle", or "clone" while a call is in flight
    pointers,      \* per caller, the upgraded handles it holds
    clones,        \* per caller, the Peer clones collected so far
    quiet,         \* per caller in flight, no loop step touched a peer since the call started
    took,          \* history: the ids of the frames the loop took, in order
    accepted,      \* history: frames whose submission returned Ok
    closedRes,     \* history: frames whose submission returned ClosedChannel
    wasBlocked,    \* history: frames whose submission had to wait on the full queue
    metaFailed,    \* history: connections whose metadata read failed
    hsFailed,      \* history: connections whose handshake failed or timed out
    srcDropped,    \* the Source value has been dropped
    advertised,    \* the mDNS daemon advertises the service
    dropLog,       \* the steps of Drop for Source whose error was logged
    rpc,           \* Recv: "new", "identify", "failed", then the reader: "check", "recv", "exited"
    hsOut,         \* Recv: the frames Recv::identify has sent, in order
    wire,          \* Recv: frames the remote source sent and the reader has not read
    rlink,         \* Recv: the connection to the remote source: "open", "closed"
    nextIn,        \* Recv: frames the remote source has sent so far
    qdepth,        \* Recv: the `queue` argument of Recv::new
    rxq,           \* Recv: per kind, the bounded queue between the reader and the handles
    handles,       \* Recv: Recv values alive (each holds both Receivers)
    pulled,        \* Recv history: per kind, the blocks the consumers pulled, in order
    errs,          \* Recv history: per kind, Err items the pull sequence yielded
    lost           \* Recv history: blocks whose try_send failed and was logged

loopVars == <<loopPc, hsConn, nextConn, hsIn, peer, streams, peers, cur, pending>>
netVars == <<link, inbox, nextMeta>>
chanVars == <<queue, sending, disconnected, nextFrame>>
callVars == <<cpc, pointers, clones, quiet>>
histVars == <<took, accepted, closedRes, wasBlocked, metaFailed, hsFailed>>
dropVars == <<srcDropped, advertised, dropLog>>
recvVars == <<rpc, hsOut, wire, rlink, nextIn, qdepth, rxq, handles, pulled, errs, lost>>
sideVars == <<dropVars, recvVars>>
srcVars == <<loopVars, netVars, chanVars, callVars, histVars>>
vars == <<loopVars, netVars, chanVars, callVars, histVars, dropVars, recvVars>>

\* ------------------------------------------------------------------ Slab
Vacant(n) == [occ |-> FALSE, conn |-> 0, nxt |-> n]
Occupied(c) == [occ |-> TRUE, conn |-> c, nxt |-> 0]
SlabNew == [entries |-> <<>>, next |-> 1]

SlabInsert(s, c) ==
    IF s.next = Len(s.entries) + 1
    THEN [entries |-> Append(s.entries, Occupied(c)), next |-> s.next + 1]
    ELSE [entries |-> [s.entries EXCEPT ![s.next] = Occupied(c)],
          next |-> s.entries[s.next].nxt]

\* Removal in the manner of Vec::swap_remove: the last entry moves to key k.
SlabRemove_SwapRemove(s, k) ==
    [entries |-> [s.entries EXCEPT ![k] = s.entries[Len(s.entries)],
                                   ![Len(s.entries)] = Vacant(s.next)],
     next |-> Len(s.entries)]

SlabRemove(s, k) ==
    [entries |-> [s.entries EXCEPT ![k] = Vacant(s.next)], next |-> k]

SlabKeys(s) == { k \in 1..Len(s.entries) : s.entries[k].occ }
SlabPeers == { streams.entries[k].conn : k \in SlabKeys(streams) }
ConnAt(k) == streams.entries[k].conn

\* -------------------------------------------------------------- helpers
\* Weak::upgrade succeeds while a strong handle exists: the slab entry, or
\* the `pointers` of a peers() call in flight.
Alive(c) ==
    \/ c \in SlabPeers
    \/ \E k \in Callers : cpc[k] = "clone" /\ c \in Range(pointers[k])

\* Eligible with the video and audio capabilities exchanged.
Eligible_KindsSwapped(p, kind) ==
    \/ (p.streams.text /\ kind = "Text")
    \/ (p.streams.audio /\ kind = "Video")
    \/ (p.streams.video /\ kind = "Audio")

\* The condition under which listen sends `kind` to a peer.
Eligible(p, kind) ==
    \/ (p.streams.text /\ kind = "Text")
    \/ (p.streams.video /\ kind = "Video")
    \/ (p.streams.audio /\ kind = "Audio")

\* A caller other than `k` holds a strong handle on connection c's Peer.
Held(c, k) ==
    \E j \in Callers \ {k} : cpc[j] = "clone" /\ c \in Range(pointers[j])

\* Dropping the strong handles on the connections of `gone` frees each Peer
\* that no peers() call (other than k's) still holds.
Release(gone, k) ==
    [c \in Conns |-> IF c \in gone /\ ~Held(c, k) THEN NoPeer ELSE peer[c]]

\* A loop step that touches a peer ends the quiet period of every peers()
\* call that is in flight.
Disturb == [k \in Callers |-> IF cpc[k] = "clone" THEN FALSE ELSE quiet[k]]

\* Source::tally: the fold of `|` over the result of peers(), from Default.
RECURSIVE FoldTally(_, _)
FoldTally(ps, acc) ==
    IF ps = <<>> THEN acc ELSE FoldTally(Tail(ps), TallyOr(acc, Head(ps).tally))

\* What a call hands back: the peers of peers(), and their fold for tally().
Result(ps) ==
    [ids |-> { ps[i].identify : i \in 1..Len(ps) }, tally |-> FoldTally(ps, TallyDefault)]


Init ==
    /\ loopPc = "select"
    /\ hsConn = 0
    /\ nextConn = 0
    /\ hsIn = [c \in Conns |-> NoHs]
    /\ peer = [c \in Conns |-> NoPeer]
    /\ streams = SlabNew
    /\ peers = <<>>
    /\ link = [c \in Conns |-> "up"]
    /\ inbox = [c \in Conns |-> <<>>]
    /\ nextMeta = 0
    /\ queue = <<>>
    /\ sending = <<>>
    /\ disconnected = FALSE
    /\ nextFrame = 0
    /\ cur = NoFrame
    /\ pending = {}
    /\ cpc = [k \in Callers |-> "idle"]
    /\ pointers = [k \in Callers |-> <<>>]
    /\ clones = [k \in Callers |-> <<>>]
    /\ quiet = [k \in Callers |-> TRUE]
    /\ took = <<>>
    /\ accepted = {}
    /\ closedRes = {}
    /\ wasBlocked = {}
    /\ metaFailed = {}
    /\ hsFailed = {}
    /\ srcDropped = FALSE
    /\ advertised = TRUE
    /\ dropLog = {}
    /\ rpc = "new"
    /\ hsOut = <<>>
    /\ wire = <<>>
    /\ rlink = "open"
    /\ nextIn = 0
    /\ qdepth = 0
    /\ rxq = [k \in Kinds |-> <<>>]
    /\ handles = 0
    /\ pulled = [k \in Kinds |-> <<>>]
    /\ errs = [k \in Kinds |-> 0]
    /\ lost = {}

\* ------------------------------------------------------- flume channel
\* Chan::pull_pending: blocked senders hand their frames to the queue while
\* it holds fewer than `effcap` frames; each such sender then returns Ok.
RECURSIVE PullPending(_, _, _, _)
PullPending(q, s, fired, effcap) ==
    IF Len(q) < effcap /\ s # <<>>
    THEN PullPending(Append(q, Head(s)), Tail(s), fired \cup {Head(s).id}, effcap)
    ELSE [queue |-> q, sending |-> s, fired |-> fired]

\* broadcast_video's `self.frames.send_async(..).await`, on a disconnected
\* channel: Err, mapped to Error::ClosedChannel.
SubmitClosed ==
    /\ ~srcDropped
    /\ nextFrame < MaxFrames
    /\ disconnected
    /\ nextFrame' = nextFrame + 1
    /\ closedRes' = closedRes \cup {nextFrame + 1}
    /\ UNCHANGED <<loopVars, netVars, callVars, queue, sending, disconnected>>
    /\ UNCHANGED <<took, accepted, wasBlocked, metaFailed, hsFailed>>
    /\ UNCHANGED sideVars

\* send_async with room in the queue: the frame is queued and the call
\* returns Ok.  broadcast_video submits Video frames; the channel carries
\* any Frame and listen treats the three kinds alike, so the kind is free.
SubmitQueued(kind) ==
    /\ ~srcDropped
    /\ nextFrame < MaxFrames
    /\ ~disconnected
    /\ Len(queue) < Cap
    /\ nextFrame' = nextFrame + 1
    /\ queue' = Append(queue, Frame(nextFrame + 1, kind))
    /\ accepted' = accepted \cup {nextFrame + 1}
    /\ UNCHANGED <<loopVars, netVars, callVars, sending, disconnected>>
    /\ UNCHANGED <<took, closedRes, wasBlocked, metaFailed, hsFailed>>
    /\ UNCHANGED sideVars

\* send_async on the full queue: the caller waits, holding its frame.
SubmitBlocks(kind) ==
    /\ ~srcDropped
    /\ nextFrame < MaxFrames
    /\ ~disconnected
    /\ Len(queue) >= Cap
    /\ nextFrame' = nextFrame + 1
    /\ sending' = Append(sending, Frame(nextFrame + 1, kind))
    /\ wasBlocked' = wasBlocked \cup {nextFrame + 1}
    /\ UNCHANGED <<loopVars, netVars, callVars, queue, disconnected>>
    /\ UNCHANGED <<took, accepted, closedRes, metaFailed, hsFailed>>
    /\ UNCHANGED sideVars

\* ------------------------------------------------------ Source::listen
\* listen returning while its Receiver stays alive: the channel is not
\* disconnected and the blocked senders keep waiting.
ListenExit_KeepsReceiver ==
    /\ loopPc' = "stopped"
    /\ hsConn' = 0
    /\ streams' = SlabNew
    /\ peer' = Release(SlabPeers, 0)
    /\ pending' = {}
    /\ link' = [c \in Conns |-> "down"]
    /\ inbox' = [c \in Conns |-> <<>>]
    /\ UNCHANGED <<queue, accepted, closedRes, sending, disconnected>>
    /\ quiet' = Disturb

\* listen returns (a `?` fired): its locals are dropped, that is every
\* (Lock<Peer>, Stream) of the slab and the channel's only Receiver; the
\* channel disconnects, which fails every blocked sender.
ListenExit ==
    /\ loopPc' = "stopped"
    /\ hsConn' = 0
    /\ streams' = SlabNew
    /\ peer' = Release(SlabPeers, 0)
    /\ pending' = {}
    /\ link' = [c \in Conns |-> "down"]
    /\ inbox' = [c \in Conns |-> <<>>]
    /\ LET pp == PullPending(queue, sending, {}, Cap)
       IN /\ queue' = pp.queue
          /\ accepted' = accepted \cup pp.fired
          /\ closedRes' = closedRes \cup { f.id : f \in Range(pp.sending) }
    /\ sending' = <<>>
    /\ disconnected' = TRUE
    /\ quiet' = Disturb

\* `listener.accept()` is ready: the loop takes the connection and awaits
\* the handshake under HANDSHAKE_TIMEOUT, inside the select arm.
AcceptStart(h) ==
    /\ loopPc = "select"
    /\ nextConn < MaxConns
    /\ nextConn' = nextConn + 1
    /\ hsConn' = nextConn + 1
    /\ hsIn' = [hsIn EXCEPT ![nextConn + 1] = h]
    /\ loopPc' = "handshake"
    /\ UNCHANGED <<peer, streams, peers, cur, pending, netVars, chanVars, callVars, histVars>>
    /\ UNCHANGED sideVars

\* timeout(HANDSHAKE_TIMEOUT, Peer::handshake(..)): Ok with the Peer when the
\* four frames arrived, an error when the client closed, Elapsed otherwise.
HandshakeResult(h) ==
    IF h.got = RequiredMsgs THEN "ok"
    ELSE IF h.closed THEN "error" ELSE "timeout"

\* The handshake returned a Peer: push the weak handle, insert the entry.
AcceptOk(s) ==
    /\ loopPc = "handshake"
    /\ HandshakeResult(hsIn[hsConn]) = "ok"
    /\ peer' = [peer EXCEPT ![hsConn] = Peer(hsConn, s, TallyDefault)]
    /\ peers' = Append(peers, hsConn)
    /\ streams' = SlabInsert(streams, hsConn)
    /\ loopPc' = "select"
    /\ hsConn' = 0
    /\ quiet' = Disturb
    /\ UNCHANGED <<nextConn, hsIn, cur, pending, netVars, chanVars, histVars>>
    /\ UNCHANGED <<cpc, pointers, clones>>
    /\ UNCHANGED sideVars

\* A failed handshake that is logged and registered with a default Peer.
AcceptFail_Registers ==
    /\ loopPc = "handshake"
    /\ HandshakeResult(hsIn[hsConn]) # "ok"
    /\ hsFailed' = hsFailed \cup {hsConn}
    /\ peer' = [peer EXCEPT ![hsConn] =
                    Peer(hsConn, EnabledStreams(TRUE, TRUE, TRUE), TallyDefault)]
    /\ peers' = Append(peers, hsConn)
    /\ streams' = SlabInsert(streams, hsConn)
    /\ loopPc' = "select"
    /\ hsConn' = 0
    /\ quiet' = Disturb
    /\ UNCHANGED <<nextConn, hsIn, cur, pending, netVars, chanVars>>
    /\ UNCHANGED <<cpc, pointers, clones>>
    /\ UNCHANGED <<took, accepted, closedRes, wasBlocked, metaFailed>>
    /\ UNCHANGED sideVars

\* The handshake failed or timed out: `.await??` returns from listen.
AcceptFail ==
    /\ loopPc = "handshake"
    /\ HandshakeResult(hsIn[hsConn]) # "ok"
    /\ hsFailed' = hsFailed \cup {hsConn}
    /\ ListenExit
    /\ UNCHANGED <<nextConn, hsIn, peers, cur, nextMeta, nextFrame>>
    /\ UNCHANGED <<cpc, pointers, clones>>
    /\ UNCHANGED <<took, wasBlocked, metaFailed>>
    /\ UNCHANGED sideVars

\* `listener.accept()` returned an error: `accepted?` returns from listen.
AcceptError ==
    /\ loopPc = "select"
    /\ ListenExit
    /\ UNCHANGED <<nextConn, hsIn, peers, cur, nextMeta, nextFrame>>
    /\ UNCHANGED <<cpc, pointers, clones>>
    /\ UNCHANGED <<took, wasBlocked, metaFailed, hsFailed>>
    /\ UNCHANGED sideVars

\* Stream::readable resolves when data is buffered or the socket is closed.
Readable(c) == inbox[c] # <<>> \/ link[c] = "down"

\* Stream::metadata on a readable stream: Ok(Some(Tally)), Ok(Some(other)),
\* Ok(None) for a frame that is not metadata, Err on a decode or I/O error.
MetadataResult(c) ==
    IF inbox[c] = <<>> THEN "Err"
    ELSE CASE Head(inbox[c]).m = "Tally" -> "Tally"
           [] Head(inbox[c]).m = "Other" -> "Other"
           [] Head(inbox[c]).m = "NonText" -> "None"
           [] OTHER -> "Err"

\* A Tally read that stores the reported value in every registered Peer.
MetaTally_AllPeers(k) ==
    /\ loopPc = "select"
    /\ k \in SlabKeys(streams)
    /\ Readable(ConnAt(k))
    /\ MetadataResult(ConnAt(k)) = "Tally"
    /\ peer' = [c \in Conns |->
                   IF c \in SlabPeers
                   THEN [peer[c] EXCEPT !.tally = Head(inbox[ConnAt(k)]).tally]
                   ELSE peer[c]]
    /\ inbox' = [inbox EXCEPT ![ConnAt(k)] = Tail(@)]
    /\ quiet' = Disturb
    /\ UNCHANGED <<loopPc, hsConn, nextConn, hsIn, streams, peers, cur, pending>>
    /\ UNCHANGED <<link, nextMeta, chanVars, histVars, cpc, pointers, clones>>
    /\ UNCHANGED sideVars

\* Ok(Some(Metadata::Tally(tally))) => peer.write().await.tally = tally
MetaTally(k) ==
    /\ loopPc = "select"
    /\ k \in SlabKeys(streams)
    /\ Readable(ConnAt(k))
    /\ MetadataResult(ConnAt(k)) = "Tally"
    /\ peer' = [peer EXCEPT ![ConnAt(k)].tally = Head(inbox[ConnAt(k)]).tally]
    /\ inbox' = [inbox EXCEPT ![ConnAt(k)] = Tail(@)]
    /\ quiet' = Disturb
    /\ UNCHANGED <<loopPc, hsConn, nextConn, hsIn, streams, peers, cur, pending>>
    /\ UNCHANGED <<link, nextMeta, chanVars, histVars, cpc, pointers, clones>>
    /\ UNCHANGED sideVars

\* Ok(other) => logged and ignored
MetaIgnored(k) ==
    /\ loopPc = "select"
    /\ k \in SlabKeys(streams)
    /\ Readable(ConnAt(k))
    /\ MetadataResult(ConnAt(k)) \in {"Other", "None"}
    /\ inbox' = [inbox EXCEPT ![ConnAt(k)] = Tail(@)]
    /\ UNCHANGED <<loopVars, link, nextMeta, chanVars, histVars, callVars>>
    /\ UNCHANGED sideVars

\* Err(err) => streams.remove(*idx); the entry's Stream and Arc are dropped.
MetaError(k) ==
    /\ loopPc = "select"
    /\ k \in SlabKeys(streams)
    /\ Readable(ConnAt(k))
    /\ MetadataResult(ConnAt(k)) = "Err"
    /\ streams' = SlabRemove(streams, k)
    /\ peer' = Release({ConnAt(k)}, 0)
    /\ metaFailed' = metaFailed \cup {ConnAt(k)}
    /\ link' = [link EXCEPT ![ConnAt(k)] = "down"]
    /\ inbox' = [inbox EXCEPT ![ConnAt(k)] = <<>>]
    /\ quiet' = Disturb
    /\ UNCHANGED <<loopPc, hsConn, nextConn, hsIn, peers, cur, pending>>
    /\ UNCHANGED <<nextMeta, chanVars, cpc, pointers, clones>>
    /\ UNCHANGED <<took, accepted, closedRes, wasBlocked, hsFailed>>
    /\ UNCHANGED sideVars

\* A take that leaves the frame at the head of the queue.
BroadcastTake_KeepsHead ==
    /\ loopPc = "select"
    /\ queue # <<>>
    /\ LET pp == PullPending(queue, sending, {}, Cap)
           frame == Head(pp.queue)
           elig == { k \in SlabKeys(streams) : Eligible(peer[ConnAt(k)], frame.kind) }
       IN /\ queue' = pp.queue
          /\ sending' = pp.sending
          /\ accepted' = accepted \cup pp.fired
          /\ took' = Append(took, frame.id)
          /\ pending' = elig
          /\ cur' = IF elig = {} THEN NoFrame ELSE frame
          /\ loopPc' = IF elig = {} THEN "select" ELSE "sending"
    /\ UNCHANGED <<hsConn, nextConn, hsIn, peer, streams, peers>>
    /\ UNCHANGED <<netVars, disconnected, nextFrame, callVars>>
    /\ UNCHANGED <<closedRes, wasBlocked, metaFailed, hsFailed>>
    /\ UNCHANGED sideVars

\* Ok(frame) = frames.recv_async(): the loop takes the head of the queue (a
\* blocked sender moves up) and join_all starts one future per slab entry;
\* the futures of eligible peers start a send, the others only log.
BroadcastTake ==
    /\ loopPc = "select"
    /\ queue # <<>>
    /\ LET pp == PullPending(queue, sending, {}, Cap + 1)
           frame == Head(pp.queue)
           elig == { k \in SlabKeys(streams) : Eligible(peer[ConnAt(k)], frame.kind) }
       IN /\ queue' = Tail(pp.queue)
          /\ sending' = pp.sending
          /\ accepted' = accepted \cup pp.fired
          /\ took' = Append(took, frame.id)
          /\ pending' = elig
          /\ cur' = IF elig = {} THEN NoFrame ELSE frame
          /\ loopPc' = IF elig = {} THEN "select" ELSE "sending"
    /\ UNCHANGED <<hsConn, nextConn, hsIn, peer, streams, peers>>
    /\ UNCHANGED <<netVars, disconnected, nextFrame, callVars>>
    /\ UNCHANGED <<closedRes, wasBlocked, metaFailed, hsFailed>>
    /\ UNCHANGED sideVars

\* join_all(..).await returns once every future has completed.
AfterSend(k) ==
    /\ pending' = pending \ {k}
    /\ cur' = IF pending \ {k} = {} THEN NoFrame ELSE cur
    /\ loopPc' = IF pending \ {k} = {} THEN "select" ELSE "sending"

\* stream.send(frame).await completed Ok.
SendOk(k) ==
    /\ loopPc = "sending"
    /\ k \in pending
    /\ link[ConnAt(k)] = "up"
    /\ AfterSend(k)
    /\ UNCHANGED <<hsConn, nextConn, hsIn, peer, streams, peers>>
    /\ UNCHANGED <<netVars, chanVars, callVars>>
    /\ UNCHANGED histVars
    /\ UNCHANGED sideVars

\* stream.send(frame).await completed with an error: `.ok()` discards it.
SendErr(k) ==
    /\ loopPc = "sending"
    /\ k \in pending
    /\ link[ConnAt(k)] = "down"
    /\ AfterSend(k)
    /\ UNCHANGED <<hsConn, nextConn, hsIn, peer, streams, peers>>
    /\ UNCHANGED <<netVars, chanVars, callVars>>
    /\ UNCHANGED histVars
    /\ UNCHANGED sideVars

\* ------------------------------------------------------------ the peers
\* A registered peer writes one frame to its socket.
PeerSend(c, m) ==
    /\ c \in SlabPeers
    /\ link[c] = "up"
    /\ nextMeta < MaxMeta
    /\ nextMeta' = nextMeta + 1
    /\ inbox' = [inbox EXCEPT ![c] = Append(@, m)]
    /\ UNCHANGED <<loopVars, link, chanVars, callVars, histVars>>
    /\ UNCHANGED sideVars

\* A registered peer stops reading and writing without closing its socket.
PeerStall(c) ==
    /\ c \in SlabPeers
    /\ link[c] = "up"
    /\ link' = [link EXCEPT ![c] = "stalled"]
    /\ UNCHANGED <<loopVars, inbox, nextMeta, chanVars, callVars, histVars>>
    /\ UNCHANGED sideVars

\* A registered peer's connection closes.
PeerDisconnect(c) ==
    /\ c \in SlabPeers
    /\ link[c] # "down"
    /\ link' = [link EXCEPT ![c] = "down"]
    /\ UNCHANGED <<loopVars, inbox, nextMeta, chanVars, callVars, histVars>>
    /\ UNCHANGED sideVars

\* ------------------------------------- Source::peers and Source::tally
\* A peers() that copies the registry without upgrading the weak handles.
PeersRead_NoUpgrade(k) ==
    /\ ~srcDropped
    /\ cpc[k] = "idle"
    /\ pointers' = [pointers EXCEPT ![k] = peers]
    /\ clones' = [clones EXCEPT ![k] = <<>>]
    /\ cpc' = [cpc EXCEPT ![k] = "clone"]
    /\ quiet' = [quiet EXCEPT ![k] = TRUE]
    /\ UNCHANGED <<loopVars, netVars, chanVars, histVars>>
    /\ UNCHANGED sideVars

\* self.peers.read().await.iter().filter_map(Weak::upgrade).collect()
PeersRead(k) ==
    /\ ~srcDropped
    /\ cpc[k] = "idle"
    /\ pointers' = [pointers EXCEPT ![k] = SelectSeq(peers, Alive)]
    /\ clones' = [clones EXCEPT ![k] = <<>>]
    /\ cpc' = [cpc EXCEPT ![k] = "clone"]
    /\ quiet' = [quiet EXCEPT ![k] = TRUE]
    /\ UNCHANGED <<loopVars, netVars, chanVars, histVars>>
    /\ UNCHANGED sideVars

\* One future of the join_all: peer.read().await.clone()
PeersClone(k) ==
    /\ cpc[k] = "clone"
    /\ Len(clones[k]) < Len(pointers[k])
    /\ clones' = [clones EXCEPT ![k] = Append(@, peer[pointers[k][Len(clones[k]) + 1]])]
    /\ UNCHANGED <<loopVars, netVars, chanVars, histVars, cpc, pointers, quiet>>
    /\ UNCHANGED sideVars

\* *self.peers.write().await = pointers.iter().map(Arc::downgrade).collect();
\* then `pointers` is dropped and the clones are returned (tally() folds them).
PeersWrite(k) ==
    /\ cpc[k] = "clone"
    /\ Len(clones[k]) = Len(pointers[k])
    /\ peers' = pointers[k]
    /\ pointers' = [pointers EXCEPT ![k] = <<>>]
    /\ clones' = [clones EXCEPT ![k] = <<>>]
    /\ quiet' = [quiet EXCEPT ![k] = TRUE]
    /\ cpc' = [cpc EXCEPT ![k] = "idle"]
    /\ peer' = Release(Range(pointers[k]) \ SlabPeers, k)
    /\ UNCHANGED <<loopPc, hsConn, nextConn, hsIn, streams, cur, pending>>
    /\ UNCHANGED <<netVars, chanVars, histVars>>
    /\ UNCHANGED sideVars

\* ------------------------------------------------------- Drop for Source
\* The results mdns.unregister(..) and mdns.shutdown() can have.
UnregisterResults == {"ok", "error", "notfound"}
ShutdownResults == {"ok", "error"}

\* Drop for Source: unregister the service and shut the mDNS daemon down,
\* logging every failure.  The fields are dropped afterwards, the `frames`
\* Sender among them.  The task spawned by Source::new is detached: it owns
\* the listener, the slab and the Receiver, and drop does not reach it.
SourceDrop(unreg, shut) ==
    /\ ~srcDropped
    /\ sending = <<>>
    /\ \A k \in Callers : cpc[k] = "idle"
    /\ srcDropped' = TRUE
    /\ advertised' = (unreg = "error" /\ shut = "error")
    /\ dropLog' = (IF unreg = "ok" THEN {} ELSE {"unregister"})
                     \cup (IF shut = "ok" THEN {} ELSE {"shutdown"})
    /\ UNCHANGED <<srcVars, recvVars>>

\* ----------------------------------------------------------------- Recv
\* A Text frame of the identify handshake: the metadata it carries, the
\* quality it asks for and the flags it sets.
TextFrame(m, quality, on) == [m |-> m, quality |-> quality, on |-> on]

\* A variant of identify that asks for the streams before it identifies.
IdentifyFrames_StreamsFirst ==
    << TextFrame("EnabledStreams", "-",
                 {"video", "audio", "text", "shq_skip_block", "shq_short_dc"}),
       TextFrame("Version", "-", {}),
       TextFrame("Identify", "-", {}),
       TextFrame("Video", "High", {}) >>

\* Recv::identify sends these four Text frames, in this order.
IdentifyFrames ==
    << TextFrame("Version", "-", {}),
       TextFrame("Identify", "-", {}),
       TextFrame("Video", "High", {}),
       TextFrame("EnabledStreams", "-",
                 {"video", "audio", "text", "shq_skip_block", "shq_short_dc"}) >>

\* A try_send that makes room by evicting the oldest queued block.
TrySend_EvictsOldest(queue_, block, depth, rx) ==
    IF ~rx THEN [queue |-> queue_, ok |-> FALSE]
    ELSE IF Len(queue_) >= depth
         THEN [queue |-> Append(Tail(queue_), block), ok |-> FALSE]
         ELSE [queue |-> Append(queue_, block), ok |-> TRUE]

\* flume::Sender::try_send on a bounded(depth) queue: Err(Disconnected) when
\* every Receiver is gone, Err(Full) when the queue holds `depth` blocks;
\* either way the block is handed back and the queue is left as it was.
TrySend(queue_, block, depth, rx) ==
    IF ~rx \/ Len(queue_) >= depth
    THEN [queue |-> queue_, ok |-> FALSE]
    ELSE [queue |-> Append(queue_, block), ok |-> TRUE]

\* Recv::new: Stream::connect(service); nothing else exists yet.
RecvNew(d, ok) ==
    /\ rpc = "new"
    /\ qdepth' = d
    /\ rpc' = IF ok THEN "identify" ELSE "failed"
    /\ rlink' = IF ok THEN "open" ELSE "closed"
    /\ UNCHANGED <<hsOut, wire, nextIn, rxq, handles, pulled, errs, lost>>
    /\ UNCHANGED <<srcVars, dropVars>>

\* Recv::identify: the next `stream.send(&Frame::Text(..))?` succeeds.
IdentifySend ==
    /\ rpc = "identify"
    /\ Len(hsOut) < Len(IdentifyFrames)
    /\ rlink = "open"
    /\ hsOut' = Append(hsOut, IdentifyFrames[Len(hsOut) + 1])
    /\ UNCHANGED <<rpc, wire, rlink, nextIn, qdepth, rxq, handles, pulled, errs, lost>>
    /\ UNCHANGED <<srcVars, dropVars>>

\* Recv::identify: the next send fails; `?` returns the error from identify
\* and from Recv::new, which drops the Stream.
IdentifyFail ==
    /\ rpc = "identify"
    /\ Len(hsOut) < Len(IdentifyFrames)
    /\ rlink = "closed"
    /\ rpc' = "failed"
    /\ wire' = <<>>
    /\ UNCHANGED <<hsOut, rlink, nextIn, qdepth, rxq, handles, pulled, errs, lost>>
    /\ UNCHANGED <<srcVars, dropVars>>

\* Recv::new after identify returned Ok: the two bounded queues are made,
\* Recv::task spawns the reader thread and the first Recv is returned.
TaskSpawn ==
    /\ rpc = "identify"
    /\ Len(hsOut) = Len(IdentifyFrames)
    /\ rxq' = [k \in Kinds |-> <<>>]
    /\ handles' = 1
    /\ rpc' = "check"
    /\ UNCHANGED <<hsOut, wire, rlink, nextIn, qdepth, pulled, errs, lost>>
    /\ UNCHANGED <<srcVars, dropVars>>

\* The reader, at the top of its loop, with a Receiver of either queue
\* alive: it goes on to `stream.recv()`.
ReaderContinue ==
    /\ rpc = "check"
    /\ handles > 0
    /\ rpc' = "recv"
    /\ UNCHANGED <<hsOut, wire, rlink, nextIn, qdepth, rxq, handles, pulled, errs, lost>>
    /\ UNCHANGED <<srcVars, dropVars>>

\* The reader, at the top of its loop, with both queues disconnected:
\* `break`; the thread ends and drops the Stream and both Senders.
ReaderBreak ==
    /\ rpc = "check"
    /\ handles = 0
    /\ rpc' = "exited"
    /\ wire' = <<>>
    /\ rlink' = "closed"
    /\ UNCHANGED <<hsOut, nextIn, qdepth, rxq, handles, pulled, errs, lost>>
    /\ UNCHANGED <<srcVars, dropVars>>

\* A reader that offers each block to the other kind's queue.
ReaderFrame_CrossRouted ==
    /\ rpc = "recv"
    /\ wire # <<>>
    /\ wire' = Tail(wire)
    /\ rpc' = "check"
    /\ LET f == Head(wire)
           other == IF f.kind = "Video" THEN "Audio" ELSE "Video"
       IN IF f.kind \in Kinds
          THEN LET r == TrySend(rxq[other], f, qdepth, handles > 0)
               IN /\ rxq' = [rxq EXCEPT ![other] = r.queue]
                  /\ lost' = IF r.ok THEN lost ELSE lost \cup {f}
          ELSE UNCHANGED <<rxq, lost>>
    /\ UNCHANGED <<hsOut, rlink, nextIn, qdepth, handles, pulled, errs>>
    /\ UNCHANGED <<srcVars, dropVars>>

\* `stream.recv()` returned a frame: a Video or Audio block is offered to
\* its queue with try_send and a failure is logged; a Text frame is ignored.
ReaderFrame ==
    /\ rpc = "recv"
    /\ wire # <<>>
    /\ wire' = Tail(wire)
    /\ rpc' = "check"
    /\ LET f == Head(wire)
       IN IF f.kind \in Kinds
          THEN LET r == TrySend(rxq[f.kind], f, qdepth, handles > 0)
               IN /\ rxq' = [rxq EXCEPT ![f.kind] = r.queue]
                  /\ lost' = IF r.ok THEN lost ELSE lost \cup {f}
          ELSE UNCHANGED <<rxq, lost>>
    /\ UNCHANGED <<hsOut, rlink, nextIn, qdepth, handles, pulled, errs>>
    /\ UNCHANGED <<srcVars, dropVars>>

\* `stream.recv()?` failed, the connection being closed with nothing left
\* to read: the closure returns the error, the thread logs it and ends.
ReaderError ==
    /\ rpc = "recv"
    /\ wire = <<>>
    /\ rlink = "closed"
    /\ rpc' = "exited"
    /\ UNCHANGED <<hsOut, wire, rlink, nextIn, qdepth, rxq, handles, pulled, errs, lost>>
    /\ UNCHANGED <<srcVars, dropVars>>

\* The remote source writes one frame to the connection.
RemoteSend(kind) ==
    /\ rpc \in {"identify", "check", "recv"}
    /\ rlink = "open"
    /\ nextIn < MaxIn
    /\ nextIn' = nextIn + 1
    /\ wire' = Append(wire, Frame(nextIn + 1, kind))
    /\ UNCHANGED <<rpc, hsOut, rlink, qdepth, rxq, handles, pulled, errs, lost>>
    /\ UNCHANGED <<srcVars, dropVars>>

\* The remote source closes the connection; what it sent stays readable.
RemoteClose ==
    /\ rpc \in {"identify", "check", "recv"}
    /\ rlink = "open"
    /\ rlink' = "closed"
    /\ UNCHANGED <<rpc, hsOut, wire, nextIn, qdepth, rxq, handles, pulled, errs, lost>>
    /\ UNCHANGED <<srcVars, dropVars>>

\* Recv::clone: both Receivers are cloned.
RecvClone ==
    /\ handles > 0
    /\ handles < MaxHandles
    /\ handles' = handles + 1
    /\ UNCHANGED <<rpc, hsOut, wire, rlink, nextIn, qdepth, rxq, pulled, errs, lost>>
    /\ UNCHANGED <<srcVars, dropVars>>

\* A Recv is dropped, and both of its Receivers with it.
RecvDrop ==
    /\ handles > 0
    /\ handles' = handles - 1
    /\ UNCHANGED <<rpc, hsOut, wire, rlink, nextIn, qdepth, rxq, pulled, errs, lost>>
    /\ UNCHANGED <<srcVars, dropVars>>

\* Recv::video / Recv::audio: try_recv hands out the head of the queue.  On
\* an empty queue it returns an error and changes nothing.
TryRecv(kind) ==
    /\ handles > 0
    /\ rxq[kind] # <<>>
    /\ pulled' = [pulled EXCEPT ![kind] = Append(@, Head(rxq[kind]))]
    /\ rxq' = [rxq EXCEPT ![kind] = Tail(@)]
    /\ UNCHANGED <<rpc, hsOut, wire, rlink, nextIn, qdepth, handles, errs, lost>>
    /\ UNCHANGED <<srcVars, dropVars>>

\* One next() of iter_video / iter_audio, that is Some(self.video.recv()):
\* the head of the queue; on an empty queue it waits while the reader lives
\* and yields Some(Err(RecvError::Disconnected)) once the reader is gone.
IterNext(kind) ==
    /\ handles > 0
    /\ IF rxq[kind] # <<>>
       THEN /\ pulled' = [pulled EXCEPT ![kind] = Append(@, Head(rxq[kind]))]
            /\ rxq' = [rxq EXCEPT ![kind] = Tail(@)]
            /\ UNCHANGED errs
       ELSE /\ rpc = "exited"
            /\ errs[kind] < MaxErrs
            /\ errs' = [errs EXCEPT ![kind] = @ + 1]
            /\ UNCHANGED <<pulled, rxq>>
    /\ UNCHANGED <<rpc, hsOut, wire, rlink, nextIn, qdepth, handles, lost>>
    /\ UNCHANGED <<srcVars, dropVars>>

\* ------------------------------------------------------ specifications
\* The loop's accept arm, the removal of a peer whose Stream fails, and the
\* peers closing their connections.
Core ==
    \/ \E h \in HsInputs : AcceptStart(h)
    \/ \E s \in StreamChoices : AcceptOk(s)
    \/ AcceptFail
    \/ AcceptError
    \/ \E k \in SlabKeys(streams) : MetaError(k)
    \/ \E c \in Conns : PeerDisconnect(c)

\* The loop with frame submission and broadcast.
Next ==
    \/ Core
    \/ BroadcastTake
    \/ \E k \in pending : SendOk(k)
    \/ \E k \in pending : SendErr(k)
    \/ SubmitClosed
    \/ \E kind \in FrameKinds : SubmitQueued(kind)
    \/ \E kind \in FrameKinds : SubmitBlocks(kind)
    \/ \E c \in Conns : PeerStall(c)

Spec == Init /\ [][Next]_vars

\* The loop with the peers' metadata and with concurrent callers of
\* Source::peers() / Source::tally().
NextQuery ==
    \/ Core
    \/ \E c \in Conns, m \in Inbound : PeerSend(c, m)
    \/ \E k \in SlabKeys(streams) : MetaTally(k)
    \/ \E k \in SlabKeys(streams) : MetaIgnored(k)
    \/ \E k \in Callers : PeersRead(k)
    \/ \E k \in Callers : PeersClone(k)
    \/ \E k \in Callers : PeersWrite(k)

SpecQuery == Init /\ [][NextQuery]_vars

\* The loop with the peers' metadata alone.
NextMeta ==
    \/ Core
    \/ \E c \in Conns, m \in Inbound : PeerSend(c, m)
    \/ \E k \in SlabKeys(streams) : MetaTally(k)
    \/ \E k \in SlabKeys(streams) : MetaIgnored(k)

SpecMeta == Init /\ [][NextMeta]_vars

\* The loop with the Source being dropped.
NextDrop ==
    \/ Core
    \/ \E unreg \in UnregisterResults, shut \in ShutdownResults : SourceDrop(unreg, shut)

SpecDrop == Init /\ [][NextDrop]_vars

\* Recv: its construction, the reader thread, the remote source and the
\* consumers holding the Recv handles.
NextRecv ==
    \/ \E d \in 1..MaxDepth, ok \in BOOLEAN : RecvNew(d, ok)
    \/ IdentifySend
    \/ IdentifyFail
    \/ TaskSpawn
    \/ ReaderContinue
    \/ ReaderBreak
    \/ ReaderFrame
    \/ ReaderError
    \/ \E kind \in FrameKinds : RemoteSend(kind)
    \/ RemoteClose
    \/ RecvClone
    \/ RecvDrop
    \/ \E kind \in Kinds : TryRecv(kind)
    \/ \E kind \in Kinds : IterNext(kind)

SpecRecv == Init /\ [][NextRecv]_vars

\* The loop under the scheduling tokio gives it: select! polls every arm in
\* each iteration, starting at a random one, so an arm that stays ready is
\* taken, and a future that can complete is driven to completion.  Nothing
\* is assumed of the clients, the peers or the submitters.
Fairness ==
    /\ WF_vars(\E s \in StreamChoices : AcceptOk(s))
    /\ WF_vars(AcceptFail)
    /\ WF_vars(\E k \in SlabKeys(streams) : MetaError(k))
    /\ WF_vars(BroadcastTake)
    /\ WF_vars(\E k \in pending : SendOk(k))
    /\ WF_vars(\E k \in pending : SendErr(k))

SpecFair == Init /\ [][Next]_vars /\ Fairness

\* ================================================================ claims
\* The EnabledStreams flag that belongs to a frame kind.
FlagFor(s, kind) ==
    CASE kind = "Video" -> s.video
      [] kind = "Audio" -> s.audio
      [] kind = "Text" -> s.text
      [] OTHER -> FALSE

\* C1: when the loop takes a frame from the submission queue, it starts a
\* send on exactly the registered peers whose EnabledStreams flag for the
\* frame's kind is true; no other step starts a send, and every send in
\* progress is to a peer whose flag for the current frame's kind is true.
C1_SendIffEnabled ==
    /\ [](\A k \in pending :
            k \in SlabKeys(streams) /\ FlagFor(peer[ConnAt(k)].streams, cur.kind))
    /\ [][ /\ took' # took =>
                \A k \in SlabKeys(streams) :
                    (k \in pending') <=> FlagFor(peer[ConnAt(k)].streams, Head(queue).kind)
           /\ took' = took => pending' \subseteq pending ]_vars

\* C1 witness: a broadcast in progress that is sent to one registered peer
\* and withheld from another whose flag for the frame's kind is false.
C1_Witness ==
    /\ loopPc = "sending"
    /\ \E k1 \in pending, k2 \in SlabKeys(streams) :
          /\ FlagFor(peer[ConnAt(k1)].streams, cur.kind)
          /\ ~FlagFor(peer[ConnAt(k2)].streams, cur.kind)
          /\ k2 \notin pending

\* C3 (as claimed): a handshake failure or timeout leaves the loop running,
\* the registered peers registered and the submission channel open.
C3_HandshakeFailureIsolated ==
    [][ (loopPc = "handshake" /\ hsFailed' # hsFailed) =>
            /\ loopPc' = "select"
            /\ streams' = streams
            /\ peers' = peers
            /\ ~disconnected' ]_vars

\* C4 (as claimed): the step in which a broadcast send fails removes that
\* peer's entry from the connection registry.
C4_FailedSendRemovesPeer ==
    [][ \A k \in pending :
            (k \notin pending' /\ link[ConnAt(k)] = "down") =>
                k \notin SlabKeys(streams') ]_vars

\* C5: the step in which a peer's metadata read fails removes that peer's
\* entry and nothing else: every other entry keeps its key, its Peer and its
\* Stream, and the loop is back at its select with the channel open.
C5_OnlyFailedPeerRemoved ==
    [][ \A c \in Conns :
            c \in metaFailed' \ metaFailed =>
                /\ c \in SlabPeers
                /\ \A k \in SlabKeys(streams) :
                      IF ConnAt(k) = c
                      THEN k \notin SlabKeys(streams')
                      ELSE /\ k \in SlabKeys(streams')
                           /\ streams'.entries[k] = streams.entries[k]
                           /\ peer'[ConnAt(k)] = peer[ConnAt(k)]
                           /\ link'[ConnAt(k)] = link[ConnAt(k)]
                           /\ inbox'[ConnAt(k)] = inbox[ConnAt(k)]
                /\ SlabKeys(streams') \subseteq SlabKeys(streams)
                /\ loopPc' = "select"
                /\ ~disconnected'
                /\ queue' = queue ]_vars

\* C5 witness: after a peer was removed by a failed metadata read, a later
\* frame is being broadcast to a peer that stayed registered.
C5_Witness ==
    /\ metaFailed # {}
    /\ loopPc = "sending"
    /\ \E k \in pending : link[ConnAt(k)] = "up"

\* C6: every entry of the peer registry and of the connection registry is a
\* connection whose handshake delivered all four frames in time and did not
\* fail.
C6_OnlyHandshakenRegistered ==
    \A c \in Range(peers) \cup SlabPeers :
        /\ hsIn[c].got = RequiredMsgs
        /\ ~hsIn[c].closed
        /\ c \notin hsFailed

\* C6 witness: a handshake has failed while the registry holds an entry.
C6_Witness ==
    /\ hsFailed # {}
    /\ peers # <<>>
    /\ \A c \in hsFailed : c \notin Range(peers)

\* C8 (as claimed): a send that does not complete never holds back another
\* peer's frames: the loop is never waiting on stalled sends alone while a
\* submitted frame, which a registered and reachable peer has enabled, sits
\* in the submission queue.
C8_StalledSendDoesNotBlock ==
    ~ /\ loopPc = "sending"
      /\ \A k \in pending : link[ConnAt(k)] = "stalled"
      /\ queue # <<>>
      /\ \E k \in SlabKeys(streams) \ pending :
            /\ link[ConnAt(k)] = "up"
            /\ FlagFor(peer[ConnAt(k)].streams, Head(queue).kind)

\* C9 (as claimed): the submission queue holds at most one frame, no frame
\* is taken twice, and once the loop can take no more frames every frame
\* whose submission returned Ok has been taken and broadcast.
C9_NoSilentDrop ==
    /\ Len(queue) <= Cap
    /\ \A i, j \in 1..Len(took) : i # j => took[i] # took[j]
    /\ loopPc = "stopped" => accepted \subseteq Range(took)

\* C10: once the loop has stopped the channel is disconnected and no sender
\* is left waiting; the senders blocked when it stopped got ClosedChannel,
\* no submission returns Ok any more, and every new one gets ClosedChannel.
C10_ClosedAfterStop ==
    /\ [](loopPc = "stopped" => (disconnected /\ sending = <<>>))
    /\ [][ loopPc' = "stopped" =>
              /\ accepted' = accepted
              /\ \A f \in Range(sending) : f.id \in closedRes'
              /\ nextFrame' # nextFrame => nextFrame' \in closedRes' ]_vars

\* C10 witness: the loop has stopped and a submission that was waiting on
\* the full queue has returned ClosedChannel.
C10_Witness ==
    /\ loopPc = "stopped"
    /\ wasBlocked \cap closedRes # {}

\* C2 (as claimed): every peer the loop holds is in the peer registry, so
\* that a peers() call started now returns it.
C2_RegisteredPeerInRegistry ==
    \A c \in SlabPeers : c \in Range(peers)

\* The OR, flag by flag, of the tallies of the peers the loop holds.
LiveTally ==
    Tally(\E c \in SlabPeers : peer[c].tally.program,
          \E c \in SlabPeers : peer[c].tally.preview)

\* C7 (as claimed): a tally() call during which the loop touched no peer
\* returns the OR, flag by flag, of the last reported tallies of the peers
\* that are connected.
C7_TallyIsOrOfLivePeers ==
    [][ \A k \in Callers :
            (cpc[k] = "clone" /\ cpc'[k] = "idle" /\ quiet[k]) =>
                Result(clones[k]).tally = LiveTally ]_vars

\* C11 (as claimed): once the Source has been dropped the listening socket
\* is released: no connection is accepted, no handshake is run and no peer
\* is registered any more, whether or not withdrawing the advertisement
\* failed.
C11_NoAcceptAfterDrop ==
    [][ srcDropped =>
            /\ nextConn' = nextConn
            /\ peers' = peers
            /\ SlabKeys(streams') \subseteq SlabKeys(streams) ]_vars


\* C12: when the reader reads a Video (resp. Audio) block while that kind's
\* queue is full, exactly that block is discarded: both queues are left as
\* they were, nothing reaches a consumer, the discard is logged, and the
\* reader is back at the top of its loop for the next frame.
C12_FullQueueDropsNewest ==
    [][ (/\ rpc = "recv"
         /\ rpc' # "recv"
         /\ wire # <<>>
         /\ Head(wire).kind \in Kinds
         /\ Len(rxq[Head(wire).kind]) >= qdepth) =>
            /\ rxq' = rxq
            /\ pulled' = pulled
            /\ lost' = lost \cup {Head(wire)}
            /\ wire' = Tail(wire)
            /\ rpc' = "check" ]_vars

\* C12 witness: a block was discarded on a full queue that a handle can
\* still pull from, the queue still holds the older blocks, and the reader
\* is reading again.
C12_Witness ==
    /\ rpc = "recv"
    /\ handles > 0
    /\ \E f \in lost :
          /\ Len(rxq[f.kind]) = qdepth
          /\ \A i \in 1..Len(rxq[f.kind]) : rxq[f.kind][i].id < f.id


\* C13 (as claimed): once the reader has exited and a queue is drained, the
\* pull sequence of that queue has ended: it yields no further item.
C13_PullSequenceEnds ==
    \A kind \in Kinds : errs[kind] = 0

\* C14 (as claimed): once every Recv handle is dropped the reader exits
\* without the help of the remote source: it is never left inside
\* `stream.recv()` on an open connection that has nothing to read.
C14_ReaderExitsWhenUnobserved ==
    ~ /\ handles = 0
      /\ rpc = "recv"
      /\ wire = <<>>
      /\ rlink = "open"


\* C15 (as claimed): while the loop runs no event source is starved: every
\* frame in the submission queue is eventually taken for broadcast, and
\* every registered peer whose Stream is readable eventually has it read,
\* whatever the other peers do.
C15_NoStarvation ==
    /\ \A i \in 1..MaxFrames :
          (\E j \in 1..Len(queue) : queue[j].id = i)
              ~> (i \in Range(took) \/ loopPc = "stopped")
    /\ \A c \in Conns :
          (c \in SlabPeers /\ Readable(c))
              ~> (c \notin SlabPeers \/ ~Readable(c) \/ loopPc = "stopped")


\* C16: the step in which the loop reads a frame from peer P's Stream
\* changes P's tally to the reported value when the frame is a Tally, and
\* nothing else: P's identify and streams, every other Peer, the connection
\* registry and the peer registry are as before.  A frame of any other
\* metadata kind, or one that is not metadata, changes no Peer and removes
\* no entry.
C16_OnlySendersTallyChanges ==
    [][ \A k \in SlabKeys(streams) :
            LET c == ConnAt(k)
            IN (/\ loopPc = "select"
                /\ loopPc' = "select"
                /\ inbox[c] # <<>>
                /\ inbox'[c] = Tail(inbox[c])
                /\ Head(inbox[c]).m \in {"Tally", "Other", "NonText"}) =>
                   /\ streams' = streams
                   /\ peers' = peers
                   /\ \A d \in Conns \ {c} : peer'[d] = peer[d]
                   /\ peer'[c].identify = peer[c].identify
                   /\ peer'[c].streams = peer[c].streams
                   /\ peer'[c].tally = IF Head(inbox[c]).m = "Tally"
                                       THEN Head(inbox[c]).tally
                                       ELSE peer[c].tally ]_vars

\* C16 witness: two peers are registered, one has reported a tally that is
\* now stored in its Peer, and the other's tally is still the default.
C16_Witness ==
    \E c, d \in SlabPeers :
        /\ c # d
        /\ inbox[c] = <<>>
        /\ nextMeta > 0
        /\ peer[c].tally # TallyDefault
        /\ peer[d].tally = TallyDefault


\* A peers() call starts / returns in this step.
CallStarts(k) == cpc[k] = "idle" /\ cpc'[k] = "clone"
CallReturns(k) == cpc[k] = "clone" /\ cpc'[k] = "idle"

\* The connection was accepted, its handshake is over, and its Peer is not
\* alive: the loop does not hold it and no call in flight does.
Gone(c) == c <= nextConn /\ c # hsConn /\ ~Alive(c)

\* What C17 says of the peers() / tally() results: a peer that is gone (the
\* loop removed it and no call in flight holds it) stays gone, a call that
\* starts then does not pick it up, and a call returns exactly the peers it
\* picked up, with a tally that has no flag but those it read from them.
GonePeerOmitted ==
    [][ \A k \in Callers :
          /\ \A c \in Conns : Gone(c) => Gone(c)'
          /\ CallStarts(k) =>
                \A c \in Conns : Gone(c) => c \notin Range(pointers'[k])
          /\ CallReturns(k) =>
                /\ Result(clones[k]).ids = Range(pointers[k])
                /\ Result(clones[k]).tally.program =>
                      \E i \in 1..Len(clones[k]) :
                          /\ clones[k][i].identify \in Range(pointers[k])
                          /\ clones[k][i].tally.program
                /\ Result(clones[k]).tally.preview =>
                      \E i \in 1..Len(clones[k]) :
                          /\ clones[k][i].identify \in Range(pointers[k])
                          /\ clones[k][i].tally.preview ]_vars

FourFrames ==
    << TextFrame("Version", "-", {}),
       TextFrame("Identify", "-", {}),
       TextFrame("Video", "High", {}),
       TextFrame("EnabledStreams", "-",
                 {"video", "audio", "text", "shq_skip_block", "shq_short_dc"}) >>

\* C18: Recv::new sends exactly the four Text frames Version, Identify,
\* Video (with the quality) and EnabledStreams (video, audio, text and both
\* codec flags on), in that order, before the queues and the reader exist
\* and before any frame is read from the Stream; and when one of the sends
\* fails, Recv::new has failed for good: no reader, no queue, no handle.
C18_IdentifyBeforeReader ==
    /\ [](/\ Len(hsOut) <= 4
          /\ hsOut = SubSeq(FourFrames, 1, Len(hsOut))
          /\ rpc \in {"check", "recv", "exited"} => hsOut = FourFrames
          /\ rpc \in {"new", "identify", "failed"} =>
                /\ handles = 0
                /\ \A kind \in Kinds : rxq[kind] = <<>> /\ pulled[kind] = <<>>
                /\ lost = {}
          /\ rpc \in {"new", "identify"} => Len(wire) = nextIn)
    /\ [][ /\ rpc = "failed" => rpc' = "failed"
           /\ (rpc = "identify" /\ rlink = "closed" /\ Len(hsOut) < 4) =>
                 rpc' \in {"identify", "failed"} ]_vars

\* C18 witness: the four frames were sent, the reader was spawned after
\* them and has since read a frame that the remote source sent while the
\* handshake was still going on.
C18_Witness ==
    /\ Len(hsOut) = 4
    /\ rpc = "recv"
    /\ \E kind \in Kinds : rxq[kind] # <<>>

\* C20: per kind, the blocks the consumers pulled, followed by those still
\* queued, are blocks of frames of that kind that the reader has read from
\* the Stream, in arrival order and each at most once; a queue never holds
\* more than `queue` blocks; so nothing is routed to the other kind's queue
\* and a Text frame adds nothing.
C20_PulledIsSubsequenceOfArrivals ==
    \A kind \in Kinds :
        LET s == pulled[kind] \o rxq[kind]
        IN /\ Len(rxq[kind]) <= qdepth
           /\ \A i \in 1..Len(s) :
                 /\ s[i].kind = kind
                 /\ s[i].id \in 1..nextIn
                 /\ \A j \in 1..Len(wire) : wire[j].id # s[i].id
                 /\ s[i] \notin lost
           /\ \A i, j \in 1..Len(s) : i < j => s[i].id < s[j].id

\* C20 witness: the consumers have pulled two video blocks and an audio
\* block, and a block was discarded on the way.
C20_Witness ==
    /\ Len(pulled["Video"]) >= 2
    /\ Len(pulled["Audio"]) >= 1
    /\ lost # {}


\* C19: the loop takes the submitted frames in submission order, each at
\* most once; the only frame being sent at any time is the one taken last;
\* sends start only in the step that takes a frame, and only to peers that
\* were registered before that step; and no peer is registered while a
\* send is in progress.  So what each peer is sent is a subsequence of the
\* submitted frames, in order and without repeats, that holds no frame
\* taken before the peer was registered.
C19_PerPeerSubsequence ==
    /\ [](/\ \A i, j \in 1..Len(took) : i < j => took[i] < took[j]
          /\ \A i \in 1..Len(took) : took[i] \in 1..nextFrame
          /\ pending # {} =>
                /\ loopPc = "sending"
                /\ cur.id = took[Len(took)]
                /\ pending \subseteq SlabKeys(streams))
    /\ [][ /\ took' = took =>
                /\ pending' \subseteq pending
                /\ pending' # {} => cur' = cur
           /\ took' # took =>
                /\ took' = Append(took, Head(queue).id)
                /\ pending' \subseteq SlabKeys(streams)
           /\ pending' # {} => streams' = streams ]_vars

\* C19 witness: the second submitted frame is being sent to two peers
\* after the first frame was taken.
C19_Witness ==
    /\ took = <<1, 2>>
    /\ loopPc = "sending"
    /\ cur.id = 2
    /\ Cardinality(pending) = 2


====
